---- MODULE Spec2Model ----
(***************************************************************************)
(* security_audit.py: the pre-commit audit of staged content.              *)
(*                                                                         *)
(* Text is a sequence of one-character strings.  The version-control       *)
(* collaborator (git) is the environment: what `git diff --cached          *)
(* --name-only` answers, what `git show :<path>` answers for each path,    *)
(* and the working tree, all fixed when the run starts.                    *)
(***************************************************************************)
EXTENDS Naturals, Sequences, FiniteSets

(* ------------------------------ bounds --------------------------------- *)

\* longest stdout of the listing query, in characters
MaxOut == 5
\* repetition counts range over threshold-Slack .. threshold+Slack
Slack == 1

(* ------------------------- program constants --------------------------- *)

\* sk-[a-zA-Z0-9]{20,}
KeyMinLen == 20
\* [^'"]{8,}
PwMinLen == 8

(* ------------------------------- text ---------------------------------- *)

LF == "\n"
CR == "\r"
\* a byte that is not valid in the locale's encoding
BadByte == "xFF"
SQ == "'"
DQ == "\""

Rep(c, n) == [i \in 1..n |-> c]

Lowercase == {"a","b","c","d","e","f","g","h","i","j","k","l","m",
              "n","o","p","q","r","s","t","u","v","w","x","y","z"}
Uppercase == {"A","B","C","D","E","F","G","H","I","J","K","L","M",
              "N","O","P","Q","R","S","T","U","V","W","X","Y","Z"}
Digits == {"0","1","2","3","4","5","6","7","8","9"}

\* [a-zA-Z0-9]
IsAlnum(c) == c \in Lowercase \cup Uppercase \cup Digits

\* ['"]
IsQuote(c) == c \in {SQ, DQ}

\* re.IGNORECASE on the letters of the literal
ToLower == [c \in {"P","A","S","W","O","R","D"} |->
              CASE c = "P" -> "p" [] c = "A" -> "a" [] c = "S" -> "s"
                [] c = "W" -> "w" [] c = "O" -> "o" [] c = "R" -> "r"
                [] c = "D" -> "d"]
Fold(c) == IF c \in DOMAIN ToLower THEN ToLower[c] ELSE c

\* str.strip(): the whitespace characters of the model's alphabet
Whitespace == {" ", "\t", LF, CR}

RECURSIVE LStrip(_)
LStrip(s) == IF s = <<>> \/ Head(s) \notin Whitespace THEN s ELSE LStrip(Tail(s))

RECURSIVE RStrip(_)
RStrip(s) == IF s = <<>> \/ s[Len(s)] \notin Whitespace THEN s
             ELSE RStrip(SubSeq(s, 1, Len(s) - 1))

Strip(s) == RStrip(LStrip(s))

\* str.split(sep): the pieces between the separators, empty pieces kept
RECURSIVE Split(_, _)
Split(s, sep) ==
    IF \A i \in 1..Len(s) : s[i] # sep THEN <<s>>
    ELSE LET i == CHOOSE k \in 1..Len(s) :
                      s[k] = sep /\ \A m \in 1..(k - 1) : s[m] # sep
         IN  <<SubSeq(s, 1, i - 1)>> \o Split(SubSeq(s, i + 1, Len(s)), sep)

\* text=True: the bytes decode or the call raises UnicodeDecodeError
Decodable(b) == \A i \in 1..Len(b) : b[i] # BadByte

\* text=True: universal newlines, "\r\n" and "\r" read as "\n"
RECURSIVE Decode(_)
Decode(b) ==
    IF b = <<>> THEN <<>>
    ELSE IF Head(b) = CR
         THEN IF Len(b) >= 2 /\ b[2] = LF
              THEN <<LF>> \o Decode(SubSeq(b, 3, Len(b)))
              ELSE <<LF>> \o Decode(Tail(b))
         ELSE <<Head(b)>> \o Decode(Tail(b))

(* ------------------------------ rules ---------------------------------- *)

\* s has the literal lit at position i (case-sensitive)
LitAt(s, i, lit) ==
    /\ i + Len(lit) - 1 <= Len(s)
    /\ \A j \in 1..Len(lit) : s[i + j - 1] = lit[j]

\* the same under re.IGNORECASE
LitAtCI(s, i, lit) ==
    /\ i + Len(lit) - 1 <= Len(s)
    /\ \A j \in 1..Len(lit) : Fold(s[i + j - 1]) = Fold(lit[j])

\* length of the longest run of [a-zA-Z0-9] that starts at position i
RECURSIVE AlnumRun(_, _)
AlnumRun(s, i) == IF i > Len(s) \/ ~IsAlnum(s[i]) THEN 0 ELSE 1 + AlnumRun(s, i + 1)

\* length of the longest run of [^'"] that starts at position i
RECURSIVE NonQuoteRun(_, _)
NonQuoteRun(s, i) == IF i > Len(s) \/ IsQuote(s[i]) THEN 0 ELSE 1 + NonQuoteRun(s, i + 1)

\* the positions `.*` can stop before when it starts at position i: it
\* matches any run of characters other than a newline
RECURSIVE DotStarEnds(_, _)
DotStarEnds(s, i) ==
    IF i > Len(s) THEN {i}
    ELSE IF s[i] = LF THEN {i}
    ELSE {i} \cup DotStarEnds(s, i + 1)

KeyPrefix == <<"s", "k", "-">>
PasswordWord == <<"p", "a", "s", "s", "w", "o", "r", "d">>

\* the quantifier off by one: {21,}
RuleA_OffByOne(content) ==
    \E i \in 1..Len(content) :
        /\ LitAt(content, i, KeyPrefix)
        /\ AlnumRun(content, i + Len(KeyPrefix)) > KeyMinLen

\* re.search(r'sk-[a-zA-Z0-9]{20,}', content)
RuleA(content) ==
    \E i \in 1..Len(content) :
        /\ LitAt(content, i, KeyPrefix)
        /\ AlnumRun(content, i + Len(KeyPrefix)) >= KeyMinLen

\* the quantifier off by one: {9,}
RuleB_OffByOne(content) ==
    \E i \in 1..Len(content) :
        /\ LitAtCI(content, i, PasswordWord)
        /\ \E j \in DotStarEnds(content, i + Len(PasswordWord)) :
              /\ j <= Len(content)
              /\ content[j] = "="
              /\ \E k \in DotStarEnds(content, j + 1) :
                    /\ k <= Len(content)
                    /\ IsQuote(content[k])
                    /\ LET r == NonQuoteRun(content, k + 1)
                       IN  /\ r > PwMinLen
                           /\ k + 1 + r <= Len(content)

\* compiled with re.DOTALL: `.` matches a newline too
RuleB_DotAll(content) ==
    \E i \in 1..Len(content) :
        /\ LitAtCI(content, i, PasswordWord)
        /\ \E j \in (i + Len(PasswordWord))..Len(content) :
              /\ content[j] = "="
              /\ \E k \in (j + 1)..Len(content) :
                    /\ IsQuote(content[k])
                    /\ LET r == NonQuoteRun(content, k + 1)
                       IN  /\ r >= PwMinLen
                           /\ k + 1 + r <= Len(content)

\* re.search(r'password.*=.*[\'"][^\'"]{8,}[\'"]', content, re.IGNORECASE)
RuleB(content) ==
    \E i \in 1..Len(content) :
        /\ LitAtCI(content, i, PasswordWord)
        /\ \E j \in DotStarEnds(content, i + Len(PasswordWord)) :
              /\ j <= Len(content)
              /\ content[j] = "="
              /\ \E k \in DotStarEnds(content, j + 1) :
                    /\ k <= Len(content)
                    /\ IsQuote(content[k])
                    /\ LET r == NonQuoteRun(content, k + 1)
                       IN  /\ r >= PwMinLen
                           /\ k + 1 + r <= Len(content)

(* ---------------------- the collaborator's answers --------------------- *)

Counts(min) == (min - Slack)..(min + Slack)

\* n alphanumerics of mixed case and digits
KeyBody(n) == [i \in 1..n |-> CASE i % 3 = 1 -> "a" [] i % 3 = 2 -> "Z" [] OTHER -> "7"]

LiveKey == KeyPrefix \o Rep("a", KeyMinLen)

KeyBlobs ==
    {KeyPrefix \o Rep("a", n) : n \in Counts(KeyMinLen)}
    \cup {<<"k", "=", DQ>> \o KeyPrefix \o KeyBody(n) \o <<DQ, LF>> : n \in Counts(KeyMinLen)}
    \cup {KeyPrefix \o Rep("a", KeyMinLen - 1) \o <<"_">> \o Rep("a", KeyMinLen - 1),
          <<"S", "K", "-">> \o Rep("a", KeyMinLen),
          <<BadByte, LF>> \o LiveKey}

PwLine(word, sep1, sep2, q1, inner, q2) ==
    word \o sep1 \o <<"=">> \o sep2 \o <<q1>> \o inner \o q2

LivePw == PwLine(PasswordWord, <<" ">>, <<" ">>, DQ, Rep("x", PwMinLen), <<DQ>>)

PwBlobs ==
    {PwLine(PasswordWord, <<" ">>, <<" ">>, DQ, Rep("x", n), <<DQ>>) : n \in Counts(PwMinLen)}
    \cup {PwLine(PasswordWord, <<" ">>, <<" ">>, DQ, <<"a", "b", "c">>,
                 <<DQ>> \o Rep("y", n) \o <<DQ, "d", "e", "f", DQ>>) : n \in Counts(PwMinLen)}
    \cup {PwLine(<<"P","A","S","S","W","O","R","D">>, <<>>, <<>>, SQ, Rep("x", PwMinLen), <<SQ>>),
          PwLine(PasswordWord, <<LF>>, <<" ">>, DQ, Rep("x", PwMinLen), <<DQ>>),
          PwLine(PasswordWord, <<CR>>, <<" ">>, DQ, Rep("x", PwMinLen), <<DQ>>),
          PwLine(PasswordWord, <<" ">>, <<LF>>, DQ, Rep("x", PwMinLen), <<DQ>>),
          PwLine(PasswordWord, <<" ">>, <<" ">>, SQ, Rep("x", PwMinLen), <<DQ>>),
          PwLine(PasswordWord, <<" ">>, <<" ">>, DQ,
                 <<"x", LF>> \o Rep("x", PwMinLen - 2), <<DQ>>),
          PwLine(PasswordWord, <<" ">>, <<" ">>, DQ, Rep("x", PwMinLen), <<>>),
          PasswordWord \o <<" ", DQ>> \o Rep("x", PwMinLen) \o <<DQ>>,
          PwLine(<<"p","a","s","s","w","d">>, <<" ">>, <<" ">>, DQ, Rep("x", PwMinLen), <<DQ>>),
          <<BadByte, LF>> \o LivePw,
          LiveKey \o <<LF>> \o LivePw}

CleanBlobs == {<<>>, <<"h", "i", LF>>}

Blobs == CleanBlobs \cup KeyBlobs \cup PwBlobs

PathA == <<"a">>
PathAA == <<"a", "a">>
IndexPaths == {PathA, PathAA}

\* what the index holds for a path, and whether git can deliver it:
\* "none" (it can), "nonzero" (git show exits non-zero), "oserror" (the
\* call itself raises)
Faults == {"nonzero", "oserror"}
EntriesA ==
    [blob : Blobs, fault : {"none"}] \cup [blob : {<<>>, LiveKey}, fault : Faults]
EntriesAA ==
    [blob : {<<>>, LiveKey, LivePw, <<BadByte, LF>> \o LiveKey}, fault : {"none"}]
    \cup [blob : {LiveKey}, fault : Faults]

Stdouts == UNION {[1..n -> {"a", LF}] : n \in 0..MaxOut}

\* subprocess.run's outcome: it raised, or it returned with a return code
\* and the decoded stdout
Raised == [raised |-> TRUE, returncode |-> 0, stdout |-> <<>>]
Completed(rc, out) == [raised |-> FALSE, returncode |-> rc, stdout |-> out]

ListOutcomes ==
    {Raised, Completed(129, <<>>), Completed(1, <<"a", LF>>)}
    \cup {Completed(0, s) : s \in Stdouts}

Worktrees == {[p \in IndexPaths |-> <<>>], [p \in IndexPaths |-> LiveKey]}

(* ------------------------------- state --------------------------------- *)

VARIABLES
    listing,       \* the collaborator's answer to git diff --cached --name-only
    index,         \* the index: path -> entry
    worktree,      \* the working tree: path -> bytes
    pc,            \* where the run is
    staged_files,  \* the parsed list of staged paths
    idx,           \* position of the for loop in staged_files
    content,       \* the content of the file in hand
    ret,           \* what check_staged_files returned
    exitcode,      \* the process's exit code, -1 as long as it runs
    out,           \* the messages printed so far
    fetched        \* the paths git show was called for, in order

vars == <<listing, index, worktree, pc, staged_files, idx, content, ret,
          exitcode, out, fetched>>

env == <<listing, index, worktree>>

Running == 0 - 1

file_path == staged_files[idx]

Msg(kind, path) == [kind |-> kind, path |-> path]

\* git show <object>: ":<path>" names the path's entry in the index
GitShow(object) ==
    IF object # <<>> /\ Head(object) = ":" /\ Tail(object) \in DOMAIN index
    THEN LET e == index[Tail(object)]
         IN  CASE e.fault = "oserror" -> Raised
               [] e.fault = "nonzero" -> Completed(128, <<>>)
               [] ~Decodable(e.blob) -> Raised
               [] OTHER -> Completed(0, Decode(e.blob))
    ELSE Completed(128, <<>>)

\* the file is read from the working tree instead: open(file_path).read()
RunShow_Worktree(path) ==
    IF path \in DOMAIN worktree /\ Decodable(worktree[path])
    THEN Completed(0, Decode(worktree[path]))
    ELSE Raised

\* subprocess.run(['git', 'show', f':{file_path}'], capture_output=True, text=True)
RunShow(path) == GitShow(<<":">> \o path)

\* result.stdout.strip().split('\n') if result.stdout.strip() else []
ParseList(stdout) == IF Strip(stdout) # <<>> THEN Split(Strip(stdout), LF) ELSE <<>>

Init ==
    /\ listing \in ListOutcomes
    /\ index \in [IndexPaths -> EntriesA \cup EntriesAA]
    /\ index[PathA] \in EntriesA
    /\ index[PathAA] \in EntriesAA
    /\ worktree \in Worktrees
    /\ pc = "start"
    /\ staged_files = <<>>
    /\ idx = 1
    /\ content = <<>>
    /\ ret = TRUE
    /\ exitcode = Running
    /\ out = <<>>
    /\ fetched = <<>>

(* ------------------------------ actions -------------------------------- *)

\* the listing run with check=True: a non-zero exit raises
ListStaged_Checked ==
    /\ pc = "start"
    /\ ~listing.raised
    /\ IF listing.returncode # 0
       THEN pc' = "except_outer" /\ UNCHANGED <<staged_files, idx>>
       ELSE /\ staged_files' = ParseList(listing.stdout)
            /\ idx' = 1
            /\ pc' = "loop"
    /\ UNCHANGED <<env, content, ret, exitcode, out, fetched>>

\* lines 13-15: the listing query returned
ListStaged ==
    /\ pc = "start"
    /\ ~listing.raised
    /\ staged_files' = ParseList(listing.stdout)
    /\ idx' = 1
    /\ pc' = "loop"
    /\ UNCHANGED <<env, content, ret, exitcode, out, fetched>>

\* lines 13-14: the listing query raised
ListRaises ==
    /\ pc = "start"
    /\ listing.raised
    /\ pc' = "except_outer"
    /\ UNCHANGED <<env, staged_files, idx, content, ret, exitcode, out, fetched>>

\* lines 17-19: an empty path is passed over
SkipEmpty ==
    /\ pc = "loop"
    /\ idx <= Len(staged_files)
    /\ file_path = <<>>
    /\ idx' = idx + 1
    /\ UNCHANGED <<env, pc, staged_files, content, ret, exitcode, out, fetched>>

\* lines 23-25: git show returned, whatever its return code
Fetch ==
    /\ pc = "loop"
    /\ idx <= Len(staged_files)
    /\ file_path # <<>>
    /\ ~RunShow(file_path).raised
    /\ content' = RunShow(file_path).stdout
    /\ fetched' = Append(fetched, file_path)
    /\ pc' = "check_key"
    /\ UNCHANGED <<env, staged_files, idx, ret, exitcode, out>>

\* lines 23-24: git show raised
FetchRaises ==
    /\ pc = "loop"
    /\ idx <= Len(staged_files)
    /\ file_path # <<>>
    /\ RunShow(file_path).raised
    /\ fetched' = Append(fetched, file_path)
    /\ pc' = "except_file"
    /\ UNCHANGED <<env, staged_files, idx, content, ret, exitcode, out>>

\* Rule B tested before Rule A
CheckApiKey_PasswordFirst ==
    /\ pc = "check_key"
    /\ pc' = IF RuleB(content) THEN "print_password"
             ELSE IF RuleA(content) THEN "print_key" ELSE "check_password"
    /\ UNCHANGED <<env, staged_files, idx, content, ret, exitcode, out, fetched>>

\* line 28
CheckApiKey ==
    /\ pc = "check_key"
    /\ pc' = IF RuleA(content) THEN "print_key" ELSE "check_password"
    /\ UNCHANGED <<env, staged_files, idx, content, ret, exitcode, out, fetched>>

\* the return False after the message is missing
PrintApiKey_NoReturn ==
    /\ pc = "print_key"
    /\ out' = Append(out, Msg("api_key", file_path))
    /\ idx' = idx + 1
    /\ pc' = "loop"
    /\ UNCHANGED <<env, staged_files, content, ret, exitcode, fetched>>

\* lines 29-30
PrintApiKey ==
    /\ pc = "print_key"
    /\ out' = Append(out, Msg("api_key", file_path))
    /\ ret' = FALSE
    /\ pc' = "exit"
    /\ UNCHANGED <<env, staged_files, idx, content, exitcode, fetched>>

\* line 33, and the end of the loop body
CheckPassword ==
    /\ pc = "check_password"
    /\ IF RuleB(content)
       THEN pc' = "print_password" /\ idx' = idx
       ELSE pc' = "loop" /\ idx' = idx + 1
    /\ UNCHANGED <<env, staged_files, content, ret, exitcode, out, fetched>>

\* lines 34-35
PrintPassword ==
    /\ pc = "print_password"
    /\ out' = Append(out, Msg("password", file_path))
    /\ ret' = FALSE
    /\ pc' = "exit"
    /\ UNCHANGED <<env, staged_files, idx, content, exitcode, fetched>>

\* the per-file handler re-raises to the top-level handler
ExceptFile_Abort ==
    /\ pc = "except_file"
    /\ pc' = "except_outer"
    /\ UNCHANGED <<env, staged_files, idx, content, ret, exitcode, out, fetched>>

\* lines 37-39: except Exception: continue
ExceptFile ==
    /\ pc = "except_file"
    /\ idx' = idx + 1
    /\ pc' = "loop"
    /\ UNCHANGED <<env, staged_files, content, ret, exitcode, out, fetched>>

\* lines 41-42: the loop is exhausted
PrintSuccess ==
    /\ pc = "loop"
    /\ idx > Len(staged_files)
    /\ out' = Append(out, Msg("passed", <<>>))
    /\ ret' = TRUE
    /\ pc' = "exit"
    /\ UNCHANGED <<env, staged_files, idx, content, exitcode, fetched>>

\* lines 44-46: except Exception at the top level
ExceptOuter ==
    /\ pc = "except_outer"
    /\ out' = Append(out, Msg("warning", <<>>))
    /\ ret' = TRUE
    /\ pc' = "exit"
    /\ UNCHANGED <<env, staged_files, idx, content, exitcode, fetched>>

\* lines 48-51
Main ==
    /\ pc = "exit"
    /\ exitcode' = IF ret THEN 0 ELSE 1
    /\ pc' = "done"
    /\ UNCHANGED <<env, staged_files, idx, content, ret, out, fetched>>

(* print raises (stdout closed, not writable, or unable to encode the text) *)

\* line 29 raises inside the per-file try
PrintApiKeyRaises ==
    /\ pc = "print_key"
    /\ pc' = "except_file"
    /\ UNCHANGED <<env, staged_files, idx, content, ret, exitcode, out, fetched>>

\* line 34 raises inside the per-file try
PrintPasswordRaises ==
    /\ pc = "print_password"
    /\ pc' = "except_file"
    /\ UNCHANGED <<env, staged_files, idx, content, ret, exitcode, out, fetched>>

\* line 41 raises inside the outer try
PrintSuccessRaises ==
    /\ pc = "loop"
    /\ idx > Len(staged_files)
    /\ pc' = "except_outer"
    /\ UNCHANGED <<env, staged_files, idx, content, ret, exitcode, out, fetched>>

\* line 45 raises inside the handler: nothing catches it, the interpreter
\* prints the traceback and exits with status 1
PrintWarningRaises ==
    /\ pc = "except_outer"
    /\ exitcode' = 1
    /\ pc' = "crashed"
    /\ UNCHANGED <<env, staged_files, idx, content, ret, out, fetched>>

Next ==
    \/ ListStaged
    \/ ListRaises
    \/ SkipEmpty
    \/ Fetch
    \/ FetchRaises
    \/ CheckApiKey
    \/ PrintApiKey
    \/ CheckPassword
    \/ PrintPassword
    \/ ExceptFile
    \/ PrintSuccess
    \/ ExceptOuter
    \/ Main

NextIO ==
    \/ Next
    \/ PrintApiKeyRaises
    \/ PrintPasswordRaises
    \/ PrintSuccessRaises
    \/ PrintWarningRaises

\* every print returns
Spec == Init /\ [][Next]_vars

\* a print may raise
SpecIO == Init /\ [][NextIO]_vars

(* ------------------- what the claims speak about ----------------------- *)

Terminal == {"done", "crashed"}

\* positions of the staged-path list that name a path
Listed == {i \in 1..Len(staged_files) : staged_files[i] # <<>>}

\* the fetch of path p delivers text: the path is in the index, git show
\* succeeds and its output decodes
Readable(p) ==
    /\ p \in DOMAIN index
    /\ index[p].fault = "none"
    /\ \A i \in 1..Len(index[p].blob) : index[p].blob[i] # BadByte

\* the text a successful fetch of p delivers
Text(p) == Decode(index[p].blob)

\* t contains sk- followed by KeyMinLen alphanumerics
HasApiKey(t) ==
    \E i \in 1..Len(t) :
        /\ i + 2 + KeyMinLen <= Len(t)
        /\ t[i] = "s" /\ t[i + 1] = "k" /\ t[i + 2] = "-"
        /\ \A j \in 3..(KeyMinLen + 2) :
              t[i + j] \in Lowercase \cup Uppercase \cup Digits

\* t has the word password at position i, in any case
WordAt(t, i) ==
    /\ i + 7 <= Len(t)
    /\ t[i] \in {"p", "P"} /\ t[i + 1] \in {"a", "A"} /\ t[i + 2] \in {"s", "S"}
    /\ t[i + 3] \in {"s", "S"} /\ t[i + 4] \in {"w", "W"} /\ t[i + 5] \in {"o", "O"}
    /\ t[i + 6] \in {"r", "R"} /\ t[i + 7] \in {"d", "D"}

\* t has: password, later on the same line "=", later on that line a quote
\* character, then PwMinLen or more characters none of which is a quote
\* character, then a quote character
HasPwAssign(t) ==
    \E i \in 1..Len(t) :
        /\ WordAt(t, i)
        /\ \E j \in (i + 8)..Len(t) :
              /\ t[j] = "="
              /\ \E k \in (j + 1)..Len(t) :
                    /\ t[k] \in {SQ, DQ}
                    /\ \A x \in (i + 8)..(k - 1) : t[x] # LF
                    /\ \E m \in (k + 1 + PwMinLen)..Len(t) :
                          /\ t[m] \in {SQ, DQ}
                          /\ \A x \in (k + 1)..(m - 1) : t[x] \notin {SQ, DQ}

\* the fetch of p delivers text that one of the two rules matches
Matches(p) == Readable(p) /\ (HasApiKey(Text(p)) \/ HasPwAssign(Text(p)))

MatchIdx == {i \in Listed : Matches(staged_files[i])}

FirstMatch == CHOOSE i \in MatchIdx : \A j \in MatchIdx : i <= j

Passed == Msg("passed", <<>>)
Warning == Msg("warning", <<>>)

Printed(m) == \E i \in 1..Len(out) : out[i] = m

\* the listed paths that name a file, in list order
NamedPaths == SelectSeq(staged_files, LAMBDA p : p # <<>>)

(* ------------------------------ claims --------------------------------- *)

\* the staged bytes of a listed path contain an API key
StagedKey(p) == p \in DOMAIN index /\ HasApiKey(index[p].blob)

\* C1, as stated: whenever a listed file's staged content contains sk-
\* followed by 20 or more alphanumerics, the audit returns False and the
\* process exits with code 1.
C1_Original ==
    (/\ pc \in Terminal
     /\ ~listing.raised
     /\ \E i \in Listed : StagedKey(staged_files[i]))
    => (ret = FALSE /\ exitcode = 1)

\* C1, amended: whenever the fetch of a listed file delivers text that
\* contains sk- followed by 20 or more alphanumerics, the audit returns
\* False and the process exits with code 1, whatever the other files hold
\* and whether or not they can be read.
C1_KeyBlocks ==
    (/\ pc \in Terminal
     /\ ~listing.raised
     /\ \E i \in Listed :
           Readable(staged_files[i]) /\ HasApiKey(Text(staged_files[i])))
    => (pc = "done" /\ ret = FALSE /\ exitcode = 1)

\* a blocked run in which the file with the key came after an unreadable one
C1_Witness ==
    /\ pc = "done"
    /\ exitcode = 1
    /\ Len(fetched) = 2
    /\ ~Readable(fetched[1])
    /\ Readable(fetched[2])
    /\ HasApiKey(Text(fetched[2]))
    /\ Len(Text(fetched[2])) = Len(KeyPrefix) + KeyMinLen

\* C2: when the listing returns and no listed file's fetched content
\* matches Rule A or Rule B (the empty list included), the run prints the
\* success marker and nothing else, returns True and exits with code 0.
C2_CleanPasses ==
    (pc \in Terminal /\ ~listing.raised /\ MatchIdx = {})
    => (pc = "done" /\ out = <<Passed>> /\ ret = TRUE /\ exitcode = 0)

\* a passing run over two files that each miss a rule narrowly
C2_Witness ==
    /\ pc = "done"
    /\ exitcode = 0
    /\ out = <<Passed>>
    /\ Len(fetched) >= 2
    /\ \E i \in 1..Len(fetched) :
          /\ Readable(fetched[i])
          /\ Text(fetched[i]) = KeyPrefix \o Rep("a", KeyMinLen - 1)

\* a quoted string of t: an opening quote at k (an even number of quote
\* characters precede it), the same quote at m, no quote in between
QuotedString(t, k, m) ==
    /\ t[k] \in {SQ, DQ}
    /\ t[m] = t[k]
    /\ \A x \in (k + 1)..(m - 1) : t[x] \notin {SQ, DQ}
    /\ Cardinality({x \in 1..(k - 1) : t[x] \in {SQ, DQ}}) % 2 = 0

\* password, later "=", later a quoted string of at least n characters
PwQuoted(t, n) ==
    \E i \in 1..Len(t) :
        /\ WordAt(t, i)
        /\ \E j \in (i + 8)..Len(t) :
              /\ t[j] = "="
              /\ \E k \in (j + 1)..Len(t) : \E m \in (k + 1 + n)..Len(t) :
                    QuotedString(t, k, m)

\* C3, as stated: for content without a Rule A match that contains
\* password, later "=", later a quoted string, the audit blocks when the
\* quoted string has 8 or more characters and does not block when every
\* such quoted string has fewer than 8.
C3_Original ==
    (pc \in Terminal /\ ~listing.raised
     /\ \A i \in Listed : Readable(staged_files[i]) /\ ~HasApiKey(Text(staged_files[i])))
    => /\ (\E i \in Listed : PwQuoted(Text(staged_files[i]), PwMinLen))
            => (ret = FALSE /\ exitcode = 1)
       /\ (\A i \in Listed : /\ PwQuoted(Text(staged_files[i]), 0)
                             /\ ~PwQuoted(Text(staged_files[i]), PwMinLen))
            => (ret = TRUE /\ exitcode = 0)

\* C3, amended: when no fetched content matches Rule A, the audit blocks
\* with exit code 1 exactly when some fetched content has, in any case,
\* password, later on the same line "=", later on that line a quote
\* character followed by 8 or more characters that are not quote
\* characters and then a quote character; otherwise it exits with code 0.
C3_PasswordBoundary ==
    (pc \in Terminal /\ ~listing.raised
     /\ \A i \in Listed :
           Readable(staged_files[i]) => ~HasApiKey(Text(staged_files[i])))
    => /\ pc = "done"
       /\ ret = (\A i \in Listed :
                    Readable(staged_files[i]) => ~HasPwAssign(Text(staged_files[i])))
       /\ exitcode = IF ret THEN 0 ELSE 1

\* a blocked run whose only file holds two 3-character strings, 8
\* characters apart
C3_Witness ==
    /\ pc = "done"
    /\ exitcode = 1
    /\ Len(fetched) = 1
    /\ Readable(fetched[1])
    /\ PwQuoted(Text(fetched[1]), 0)
    /\ ~PwQuoted(Text(fetched[1]), PwMinLen)

\* C4, as stated: when the listing query fails, by raising or by exiting
\* non-zero, the audit exits with code 0 and prints the warning, not the
\* success marker.
C4_Original ==
    (pc \in Terminal /\ (listing.raised \/ listing.returncode # 0))
    => (exitcode = 0 /\ out = <<Warning>>)

\* C4, amended: when the listing query raises, the audit fetches nothing,
\* prints the warning alone and exits with code 0; when it exits non-zero
\* without raising, no warning is printed, and with nothing on its stdout
\* the run prints the success marker and exits with code 0.
C4_ListingFailure ==
    pc \in Terminal
    => /\ listing.raised
            => (pc = "done" /\ out = <<Warning>> /\ fetched = <<>> /\ exitcode = 0)
       /\ (~listing.raised /\ listing.returncode # 0)
            => /\ ~Printed(Warning)
               /\ listing.stdout = <<>> => (out = <<Passed>> /\ exitcode = 0)

\* a finished run whose listing query exited non-zero
C4_Witness ==
    /\ pc = "done"
    /\ ~listing.raised
    /\ listing.returncode # 0
    /\ listing.stdout = <<>>
    /\ out = <<Passed>>

\* C5, as stated: every run ends in exactly one of BLOCKED (exit code 1),
\* PASSED or ERRORED-BUT-ALLOWED (exit code 0), and no exception escapes
\* the entry point.
C5_Original ==
    pc \in Terminal
    => /\ pc # "crashed"
       /\ \/ ret = FALSE /\ exitcode = 1 /\ ~Printed(Passed) /\ ~Printed(Warning)
          \/ ret = TRUE /\ exitcode = 0 /\ Printed(Passed) /\ ~Printed(Warning)
          \/ ret = TRUE /\ exitcode = 0 /\ Printed(Warning)

\* a path that cannot be fetched: git show raises or exits non-zero
FetchFails(p) == ~Readable(p)

\* C6: a failed fetch never leads to the error state and never ends the
\* scan: no message names the file, no warning is printed, the files up
\* to the first match are all fetched, a matching file still blocks and a
\* list without one still passes with the success marker.
C6_FetchFailureAbsorbed ==
    /\ pc = "except_outer" => listing.raised
    /\ (pc \in Terminal /\ ~listing.raised
        /\ \E i \in Listed : FetchFails(staged_files[i]))
       => /\ pc = "done"
          /\ ~Printed(Warning)
          /\ \A i \in Listed : \A n \in 1..Len(out) :
                FetchFails(staged_files[i]) => out[n].path # staged_files[i]
          /\ IF MatchIdx = {}
             THEN ret = TRUE /\ out = <<Passed>> /\ fetched = NamedPaths
             ELSE /\ ret = FALSE
                  /\ Len(fetched) = Cardinality({i \in Listed : i <= FirstMatch})

\* a blocked run whose first fetch failed
C6_Witness ==
    /\ pc = "done"
    /\ ret = FALSE
    /\ Len(fetched) >= 2
    /\ FetchFails(fetched[1])

IsPrefix(s, t) == Len(s) <= Len(t) /\ SubSeq(t, 1, Len(s)) = s

\* C7: the files are fetched in list order, and once the content in hand
\* matches a rule no further fetch is made and the success marker is not
\* printed.
C7_ShortCircuit ==
    [][/\ IsPrefix(fetched', SelectSeq(staged_files', LAMBDA p : p # <<>>))
       /\ Len(fetched') <= Len(fetched) + 1
       /\ (HasApiKey(content) \/ HasPwAssign(content))
             => (fetched' = fetched /\ \A n \in 1..Len(out') : out'[n] # Passed)]_vars

\* a blocked run that left a later listed file unfetched
C7_Witness ==
    /\ pc = "done"
    /\ ret = FALSE
    /\ fetched # <<>>
    /\ Len(fetched) < Len(NamedPaths)
    /\ Matches(NamedPaths[Len(fetched) + 1])

\* C8: a blocked run prints exactly one message; it names the first listed
\* path whose fetched content matches a rule, with the API-key reason if
\* that content matches Rule A and the password reason otherwise.
C8_OneMessageFirstMatch ==
    (pc \in Terminal /\ ret = FALSE)
    => /\ MatchIdx # {}
       /\ out = <<Msg(IF HasApiKey(Text(staged_files[FirstMatch]))
                      THEN "api_key" ELSE "password",
                      staged_files[FirstMatch])>>

\* a run blocked by its second file, which matches both rules
C8_Witness ==
    /\ pc = "done"
    /\ ret = FALSE
    /\ Len(fetched) = 2
    /\ fetched[1] # fetched[2]
    /\ HasApiKey(content)
    /\ HasPwAssign(content)

\* the run's result as a function of the listing and the index alone
RECURSIVE Scan(_)
Scan(paths) ==
    IF paths = <<>> THEN <<TRUE, 0, <<Passed>>>>
    ELSE LET p == Head(paths)
         IN  IF p # <<>> /\ Readable(p) /\ HasApiKey(Text(p))
             THEN <<FALSE, 1, <<Msg("api_key", p)>>>>
             ELSE IF p # <<>> /\ Readable(p) /\ HasPwAssign(Text(p))
             THEN <<FALSE, 1, <<Msg("password", p)>>>>
             ELSE Scan(Tail(paths))

Verdict ==
    IF listing.raised THEN <<TRUE, 0, <<Warning>>>>
    ELSE Scan(ParseList(listing.stdout))

\* C9: the verdict, the exit code and the messages of a run are a function
\* of the listing and the index, whatever the working tree holds, and the
\* run changes neither the index nor the working tree.
C9_IndexOnly ==
    [][/\ index' = index
       /\ worktree' = worktree
       /\ listing' = listing
       /\ pc' \in Terminal => <<ret', exitcode', out'>> = Verdict]_vars

\* a passing run over a file that is clean in the index and holds a key in
\* the working tree
C9_Witness ==
    /\ pc = "done"
    /\ ret = TRUE
    /\ fetched # <<>>
    /\ \E i \in 1..Len(fetched) :
          /\ Readable(fetched[i])
          /\ HasApiKey(worktree[fetched[i]])
          /\ ~HasApiKey(Text(fetched[i]))

\* C10, as stated: whenever the content fetched for a file matches a rule,
\* the run ends BLOCKED with exit code 1 and a block message for a file.
C10_Original ==
    (pc \in Terminal /\ \E i \in 1..Len(fetched) : Matches(fetched[i]))
    => /\ pc = "done"
       /\ ret = FALSE
       /\ exitcode = 1
       /\ Len(out) = 1
       /\ out[1].kind \in {"api_key", "password"}
====
